---------------------------- MODULE Spec2Model ----------------------------
(***************************************************************************)
(* ProdCalc (src/script.js): the expression engine (tokenize, toRPN,       *)
(* evalRPN, evaluateExpression, formatNumber) and the command handler that *)
(* drives it (handleCommand, pushHistoryItem, animateValue).               *)
(*                                                                         *)
(* A JavaScript string is a sequence of one-character strings.  A JS       *)
(* number is an exact rational n/d (kind "fin"), NaN (kind "nan"), an      *)
(* infinity (kind "inf", n its sign) or, when the exact value is outside   *)
(* what this arithmetic keeps (a numerator or denominator above MaxMag, an *)
(* irrational power or root), the kind "unm": a number the model does not  *)
(* follow further.  Binary rounding of doubles and the sign of zero are    *)
(* not modelled.                                                           *)
(***************************************************************************)
EXTENDS Integers, Sequences, FiniteSets, TLC

\* ------------------------------------------------------------------------
\* Bounds of the model
\* ------------------------------------------------------------------------

\* Largest numerator or denominator the exact arithmetic keeps.
MaxMag == 1000000

\* Longest enumerated input string of each specification.
MaxLen == 4
MaxTokenLen == 3
MaxArithLen == 4
MaxOps == 3
MaxDivLen == 5
MaxPercentLen == 4
MaxFuncLen == 3

\* Commands: the longest expression typed, the entries of the history, the
\* timeouts pending at once.
MaxExpr == 2
MaxHist == 1
MaxTimers == 1

\* ------------------------------------------------------------------------
\* Numbers
\* ------------------------------------------------------------------------

Abs(x) == IF x < 0 THEN -x ELSE x

RECURSIVE Gcd(_, _)
Gcd(a, b) == IF b = 0 THEN a ELSE Gcd(b, a % b)

NaN == [k |-> "nan", n |-> 0, d |-> 0]
Unm == [k |-> "unm", n |-> 0, d |-> 0]
Inf(sign) == [k |-> "inf", n |-> sign, d |-> 0]
NoValue == [k |-> "none", n |-> 0, d |-> 0]

\* a * b stays within MaxMag (decided without computing the product).
Fits(a, b) == a = 0 \/ b = 0 \/ Abs(a) <= MaxMag \div Abs(b)

\* The rational n/d, d # 0, in lowest terms with a positive denominator.
Rat(n, d) ==
  LET g == Gcd(Abs(n), Abs(d))
      sn == IF d < 0 THEN -n ELSE n
  IN  IF Abs(n) \div g > MaxMag \/ Abs(d) \div g > MaxMag THEN Unm
      ELSE [k |-> "fin", n |-> sn \div g, d |-> Abs(d) \div g]

IntV(n) == [k |-> "fin", n |-> n, d |-> 1]
Zero == IntV(0)

IsFin(v) == v.k = "fin"
IsZero(v) == v.k = "fin" /\ v.n = 0
Sign(v) == IF v.n > 0 THEN 1 ELSE IF v.n < 0 THEN -1 ELSE 0
IsInteger(v) == v.k = "fin" /\ v.d = 1

\* a + b of JavaScript.
AddV(a, b) ==
  IF a.k = "nan" \/ b.k = "nan" THEN NaN
  ELSE IF a.k = "unm" \/ b.k = "unm" THEN Unm
  ELSE IF a.k = "inf" /\ b.k = "inf" THEN (IF a.n = b.n THEN a ELSE NaN)
  ELSE IF a.k = "inf" THEN a
  ELSE IF b.k = "inf" THEN b
  ELSE IF Fits(a.n, b.d) /\ Fits(b.n, a.d) /\ Fits(a.d, b.d)
       THEN Rat(a.n * b.d + b.n * a.d, a.d * b.d)
       ELSE Unm

NegV(a) == IF a.k \in {"fin", "inf"} THEN [a EXCEPT !.n = -a.n] ELSE a

\* a - b of JavaScript.
SubV(a, b) == AddV(a, NegV(b))

\* a * b of JavaScript.
MulV(a, b) ==
  IF a.k = "nan" \/ b.k = "nan" THEN NaN
  ELSE IF a.k = "unm" \/ b.k = "unm" THEN Unm
  ELSE IF a.k = "inf" \/ b.k = "inf"
       THEN (IF Sign(a) * Sign(b) = 0 THEN NaN ELSE Inf(Sign(a) * Sign(b)))
  ELSE IF Fits(a.n, b.n) /\ Fits(a.d, b.d)
       THEN Rat(a.n * b.n, a.d * b.d)
       ELSE Unm

\* a / b of JavaScript.  0/0 is NaN; any other division by zero is an
\* infinity whose sign depends on the sign of the zero.
DivV(a, b) ==
  IF a.k = "nan" \/ b.k = "nan" THEN NaN
  ELSE IF a.k = "unm" \/ b.k = "unm" THEN Unm
  ELSE IF IsZero(b) THEN (IF IsZero(a) THEN NaN ELSE Unm)
  ELSE IF a.k = "inf" /\ b.k = "inf" THEN NaN
  ELSE IF a.k = "inf" THEN Inf(Sign(a) * Sign(b))
  ELSE IF b.k = "inf" THEN Zero
  ELSE IF Fits(a.n, b.d) /\ Fits(a.d, b.n)
       THEN Rat(a.n * b.d, a.d * b.n)
       ELSE Unm

\* acc * a^e for a natural e, by repeated multiplication, given up as soon
\* as the product leaves the range.
RECURSIVE NatPowAcc(_, _, _)
NatPowAcc(a, e, acc) ==
  IF e = 0 \/ acc.k = "unm" THEN acc
  ELSE NatPowAcc(a, e - 1, MulV(acc, a))
NatPow(a, e) == NatPowAcc(a, e, IntV(1))

\* Math.pow(a, b).  An exponent of zero gives 1 whatever the base; a NaN
\* operand gives NaN; an integer exponent gives the exact power; zero to a
\* negative power is an infinity (of a sign that depends on the sign of the
\* zero when the exponent is odd); a negative base with a fractional exponent
\* is NaN; other fractional powers are not followed.
PowV(a, b) ==
  IF IsZero(b) THEN IntV(1)
  ELSE IF a.k = "nan" \/ b.k = "nan" THEN NaN
  ELSE IF a.k # "fin" \/ b.k # "fin" THEN Unm
  ELSE IF IsInteger(b) THEN
         IF b.n > 0 THEN (IF Abs(a.n) <= 1 /\ a.d = 1
                          THEN (IF a.n = -1 /\ b.n % 2 = 0 THEN IntV(1) ELSE a)
                          ELSE NatPow(a, b.n))
         ELSE IF IsZero(a) THEN (IF b.n % 2 = 0 THEN Inf(1) ELSE Unm)
         ELSE IF Abs(a.n) = 1 /\ a.d = 1
              THEN (IF a.n = -1 /\ b.n % 2 = 0 THEN IntV(1) ELSE a)
         ELSE NatPow([k |-> "fin",
                      n |-> IF a.n < 0 THEN -a.d ELSE a.d,
                      d |-> Abs(a.n)], -b.n)
  ELSE IF IsZero(a) THEN (IF b.n > 0 THEN Zero ELSE Inf(1))
  ELSE IF a.n < 0 THEN NaN
  ELSE IF a.n = 1 /\ a.d = 1 THEN a
  ELSE Unm

\* The natural r in lo..hi with r * r = n, or -1 when there is none.
RECURSIVE IRootIn(_, _, _)
IRootIn(n, lo, hi) ==
  IF lo > hi THEN -1
  ELSE LET mid == (lo + hi) \div 2 IN
       IF mid <= n \div (IF mid = 0 THEN 1 ELSE mid) /\ mid * mid = n THEN mid
       ELSE IF mid = 0 \/ mid <= n \div mid THEN IRootIn(n, mid + 1, hi)
       ELSE IRootIn(n, lo, mid - 1)
IRoot(n) == IRootIn(n, 0, n)

\* Math.sqrt(a).
SqrtV(a) ==
  IF a.k = "nan" THEN NaN
  ELSE IF a.k = "unm" THEN Unm
  ELSE IF a.k = "inf" THEN (IF a.n > 0 THEN a ELSE NaN)
  ELSE IF a.n < 0 THEN NaN
  ELSE LET rn == IRoot(a.n)
            rd == IRoot(a.d)
       IN   IF rn >= 0 /\ rd >= 0 THEN Rat(rn, rd) ELSE Unm

\* ------------------------------------------------------------------------
\* Characters and tokens
\* ------------------------------------------------------------------------

Digits == {"0", "1", "2", "3", "4", "5", "6", "7", "8", "9"}
Letters == {"a", "b", "c", "d", "e", "f", "g", "h", "i", "j", "k", "l", "m",
            "n", "o", "p", "q", "r", "s", "t", "u", "v", "w", "x", "y", "z",
            "A", "B", "C", "D", "E", "F", "G", "H", "I", "J", "K", "L", "M",
            "N", "O", "P", "Q", "R", "S", "T", "U", "V", "W", "X", "Y", "Z"}

isDigit(c) == c \in Digits
isWhite(c) == c \in {" ", "\t", "\n", "\r"}
isOperator(c) == c \in {"+", "-", "*", "/", "^"}

precedence(op) ==
  IF op = <<"+">> \/ op = <<"-">> THEN 1
  ELSE IF op = <<"*">> \/ op = <<"/">> THEN 2
  ELSE IF op = <<"^">> THEN 3
  ELSE 0

isRightAssoc(op) == op = <<"^">>

\* A token {type, value}; value is the empty string where the code sets none.
Tok(type, value) == [type |-> type, value |-> value]

NoErr == [msg |-> "", arg |-> <<>>]
Err(msg, arg) == [msg |-> msg, arg |-> arg]

\* s.slice(i, j), both 0-based, j exclusive.
Slice(s, i, j) == SubSeq(s, i + 1, j)

\* The first index >= j whose character is not in cls (s.length if none).
RECURSIVE ScanWhile(_, _, _)
ScanWhile(s, j, cls) ==
  IF j < Len(s) /\ s[j + 1] \in cls THEN ScanWhile(s, j + 1, cls) ELSE j

\* ------------------------------------------------------------------------
\* tokenize
\* ------------------------------------------------------------------------

\* A unary-sign test that forgets the case of a preceding operator.
IsUnarySignNotAfterOperator(c, tokens) ==
  /\ (c = "+" \/ c = "-")
  /\ \/ Len(tokens) = 0
     \/ tokens[Len(tokens)].type = "("

\* The unary-sign test on the operator character c and the tokens so far.
IsUnarySign(c, tokens) ==
  /\ (c = "+" \/ c = "-")
  /\ \/ Len(tokens) = 0
     \/ tokens[Len(tokens)].type = "("
     \/ tokens[Len(tokens)].type = "op"

\* One iteration of tokenize's while loop at index i < s.length.
TokenizeIter(s, i, tokens) ==
  LET c == s[i + 1] IN
  IF isWhite(c) THEN [i |-> i + 1, tokens |-> tokens, err |-> NoErr]
  ELSE IF isDigit(c) \/ c = "." THEN
    LET j == ScanWhile(s, i, Digits \cup {"."})
    IN  [i |-> j, tokens |-> Append(tokens, Tok("num", Slice(s, i, j))),
         err |-> NoErr]
  ELSE IF c = "(" \/ c = ")" THEN
    [i |-> i + 1, tokens |-> Append(tokens, Tok(c, <<>>)), err |-> NoErr]
  ELSE IF c = "%" THEN
    [i |-> i + 1, tokens |-> Append(tokens, Tok("percent", <<>>)), err |-> NoErr]
  ELSE IF isOperator(c) THEN
    [i |-> i + 1,
     tokens |-> IF IsUnarySign(c, tokens)
                THEN tokens \o <<Tok("num", <<"0">>), Tok("op", <<c>>)>>
                ELSE Append(tokens, Tok("op", <<c>>)),
     err |-> NoErr]
  ELSE IF c \in Letters THEN
    LET j == ScanWhile(s, i, Letters \cup Digits)
    IN  [i |-> j, tokens |-> Append(tokens, Tok("func", Slice(s, i, j))),
         err |-> NoErr]
  ELSE [i |-> i, tokens |-> tokens, err |-> Err("Invalid character", <<c>>)]

RECURSIVE TokenizeFrom(_, _, _)
TokenizeFrom(s, i, tokens) ==
  IF i >= Len(s) THEN [tokens |-> tokens, err |-> NoErr]
  ELSE LET r == TokenizeIter(s, i, tokens)
       IN  IF r.err # NoErr THEN [tokens |-> r.tokens, err |-> r.err]
           ELSE TokenizeFrom(s, r.i, r.tokens)

tokenize(s) == TokenizeFrom(s, 0, <<>>)

\* ------------------------------------------------------------------------
\* toRPN
\* ------------------------------------------------------------------------

Top(stack) == stack[Len(stack)]
Pop(stack) == SubSeq(stack, 1, Len(stack) - 1)

\* A loop condition that treats every operator as left-associative.
ShouldPopLeftAssoc(t, top) ==
  /\ top.type = "op"
  /\ precedence(t.value) <= precedence(top.value)

\* The condition of the operator loop: top goes to the output before t.
ShouldPop(t, top) ==
  /\ top.type = "op"
  /\ \/ isRightAssoc(t.value) /\ precedence(t.value) < precedence(top.value)
     \/ ~isRightAssoc(t.value) /\ precedence(t.value) <= precedence(top.value)

\* The while loop of the operator branch.
RECURSIVE PopOperators(_, _, _)
PopOperators(t, out, ops) ==
  IF Len(ops) > 0 /\ ShouldPop(t, Top(ops))
  THEN PopOperators(t, Append(out, Top(ops)), Pop(ops))
  ELSE [out |-> out, ops |-> ops]

\* The while loop of the ')' branch: pop to the output down to a '('.
RECURSIVE PopToParen(_, _)
PopToParen(out, ops) ==
  IF Len(ops) > 0 /\ Top(ops).type # "("
  THEN PopToParen(Append(out, Top(ops)), Pop(ops))
  ELSE [out |-> out, ops |-> ops]

\* A Percent token handled like an operator: its '%' waits on the stack.
PercentOnStack(t, out, ops) ==
  [out |-> Append(out, t), ops |-> Append(ops, Tok("op", <<"%">>)), err |-> NoErr]

\* What toRPN does with a Percent token.
PercentBranch(t, out, ops) ==
  [out |-> out \o <<t, Tok("op", <<"%">>)>>, ops |-> ops, err |-> NoErr]

\* One iteration of toRPN's for loop on token t.
ToRPNIter(t, out, ops) ==
  IF t.type = "num" THEN [out |-> Append(out, t), ops |-> ops, err |-> NoErr]
  ELSE IF t.type = "func" THEN [out |-> out, ops |-> Append(ops, t), err |-> NoErr]
  ELSE IF t.type = "percent" THEN PercentBranch(t, out, ops)
  ELSE IF t.type = "op" THEN
    LET r == PopOperators(t, out, ops)
    IN  [out |-> r.out, ops |-> Append(r.ops, t), err |-> NoErr]
  ELSE IF t.type = "(" THEN [out |-> out, ops |-> Append(ops, t), err |-> NoErr]
  ELSE IF t.type = ")" THEN
    LET r == PopToParen(out, ops) IN
    IF Len(r.ops) = 0
    THEN [out |-> r.out, ops |-> r.ops, err |-> Err("Mismatched parentheses", <<>>)]
    ELSE LET ops2 == Pop(r.ops) IN
         IF Len(ops2) > 0 /\ Top(ops2).type = "func"
         THEN [out |-> Append(r.out, Top(ops2)), ops |-> Pop(ops2), err |-> NoErr]
         ELSE [out |-> r.out, ops |-> ops2, err |-> NoErr]
  ELSE [out |-> out, ops |-> ops, err |-> NoErr]

\* A final loop that drops a left-over parenthesis instead of throwing.
RECURSIVE ToRPNDrainNoCheck(_, _)
ToRPNDrainNoCheck(out, ops) ==
  IF Len(ops) = 0 THEN [out |-> out, ops |-> ops, err |-> NoErr]
  ELSE LET x == Top(ops) IN
       IF x.type = "(" \/ x.type = ")"
       THEN ToRPNDrainNoCheck(out, Pop(ops))
       ELSE ToRPNDrainNoCheck(Append(out, x), Pop(ops))

\* The final while loop of toRPN: every remaining entry goes to the output.
RECURSIVE ToRPNDrain(_, _)
ToRPNDrain(out, ops) ==
  IF Len(ops) = 0 THEN [out |-> out, ops |-> ops, err |-> NoErr]
  ELSE LET x == Top(ops) IN
       IF x.type = "(" \/ x.type = ")"
       THEN [out |-> out, ops |-> Pop(ops),
             err |-> Err("Mismatched parentheses", <<>>)]
       ELSE ToRPNDrain(Append(out, x), Pop(ops))

RECURSIVE ToRPNFrom(_, _, _, _)
ToRPNFrom(tokens, ti, out, ops) ==
  IF ti >= Len(tokens) THEN ToRPNDrain(out, ops)
  ELSE LET r == ToRPNIter(tokens[ti + 1], out, ops)
       IN  IF r.err # NoErr THEN r ELSE ToRPNFrom(tokens, ti + 1, r.out, r.ops)

toRPN(tokens) == ToRPNFrom(tokens, 0, <<>>, <<>>)

\* ------------------------------------------------------------------------
\* evalRPN
\* ------------------------------------------------------------------------

DigitValue(c) ==
  CASE c = "0" -> 0 [] c = "1" -> 1 [] c = "2" -> 2 [] c = "3" -> 3
    [] c = "4" -> 4 [] c = "5" -> 5 [] c = "6" -> 6 [] c = "7" -> 7
    [] c = "8" -> 8 [] c = "9" -> 9

\* The decimal digits ds[1..k] read as a natural, or -1 above MaxMag.
RECURSIVE DigitsValue(_, _)
DigitsValue(ds, k) ==
  IF k = 0 THEN 0
  ELSE LET hi == DigitsValue(ds, k - 1)
       IN  IF hi < 0 \/ hi > MaxMag \div 10 THEN -1
           ELSE hi * 10 + DigitValue(ds[k])

RECURSIVE Pow10(_)
Pow10(k) == IF k = 0 THEN 1 ELSE 10 * Pow10(k - 1)

\* Number(text) for a text of digits and dots: NaN for a lone "." or more
\* than one dot, else the decimal the text spells.
NumberV(text) ==
  LET dots == {p \in 1..Len(text) : text[p] = "."} IN
  IF Cardinality(dots) > 1 \/ Len(text) = Cardinality(dots) THEN NaN
  ELSE LET ds == SelectSeq(text, LAMBDA c : c # ".")
           frac == IF dots = {} THEN 0 ELSE Len(text) - (CHOOSE p \in dots : TRUE)
           v == DigitsValue(ds, Len(ds))
       IN  IF v < 0 \/ frac > 6 THEN Unm ELSE Rat(v, Pow10(frac))

\* A callFunc that lets an unknown name through as the identity.
callFuncLenient(name, a) ==
  IF name = <<"s", "q", "r", "t">> THEN [v |-> SqrtV(a), err |-> NoErr]
  ELSE [v |-> a, err |-> NoErr]

callFunc(name, a) ==
  IF name = <<"s", "q", "r", "t">> THEN [v |-> SqrtV(a), err |-> NoErr]
  ELSE [v |-> NoValue, err |-> Err("Unknown function", name)]

\* The value a binary operator pushes for operands a and b (b # 0 for '/').
ApplyOp(op, a, b) ==
  CASE op = <<"+">> -> AddV(a, b)
    [] op = <<"-">> -> SubV(a, b)
    [] op = <<"*">> -> MulV(a, b)
    [] op = <<"/">> -> DivV(a, b)
    [] op = <<"^">> -> PowV(a, b)

\* A '/' case without the zero test.
DivisorNeverZero(b) == FALSE

\* The test b === 0 of the '/' case.
DivisorIsZero(b) == IsZero(b)

\* One iteration of evalRPN's for loop on token t with value stack st.
EvalRPNIter(t, st) ==
  IF t.type = "num" THEN [st |-> Append(st, NumberV(t.value)), err |-> NoErr]
  ELSE IF t.type = "op" THEN
    IF t.value = <<"%">> THEN
      IF Len(st) = 0 THEN [st |-> st, err |-> Err("Invalid percent", <<>>)]
      ELSE [st |-> Append(Pop(st), DivV(Top(st), IntV(100))), err |-> NoErr]
    ELSE IF Len(st) < 2 THEN [st |-> st, err |-> Err("Invalid expression", <<>>)]
    ELSE LET b == Top(st)
             a == Top(Pop(st))
             rest == Pop(Pop(st))
         IN  IF t.value \notin {<<"+">>, <<"-">>, <<"*">>, <<"/">>, <<"^">>}
             THEN [st |-> rest, err |-> Err("Unknown op", t.value)]
             ELSE IF t.value = <<"/">> /\ DivisorIsZero(b)
             THEN [st |-> rest, err |-> Err("Divide by zero", <<>>)]
             ELSE [st |-> Append(rest, ApplyOp(t.value, a, b)), err |-> NoErr]
  ELSE IF t.type = "func" THEN
    IF Len(st) = 0 THEN [st |-> st, err |-> Err("Func missing arg", <<>>)]
    ELSE LET r == callFunc(t.value, Top(st))
         IN  IF r.err # NoErr THEN [st |-> Pop(st), err |-> r.err]
             ELSE [st |-> Append(Pop(st), r.v), err |-> NoErr]
  ELSE [st |-> st, err |-> NoErr]

\* A final check that accepts any non-empty stack and returns its top.
EvalRPNResultTop(st) ==
  IF Len(st) = 0 THEN [v |-> NoValue, err |-> Err("Invalid expression", <<>>)]
  ELSE [v |-> st[Len(st)], err |-> NoErr]

\* The check after the loop: exactly one value is the result.
EvalRPNResult(st) ==
  IF Len(st) # 1 THEN [v |-> NoValue, err |-> Err("Invalid expression", <<>>)]
  ELSE [v |-> st[1], err |-> NoErr]

RECURSIVE EvalRPNFrom(_, _, _)
EvalRPNFrom(rpn, ri, st) ==
  IF ri >= Len(rpn) THEN EvalRPNResult(st)
  ELSE LET r == EvalRPNIter(rpn[ri + 1], st)
       IN  IF r.err # NoErr THEN [v |-> NoValue, err |-> r.err]
           ELSE EvalRPNFrom(rpn, ri + 1, r.st)

evalRPN(rpn) == EvalRPNFrom(rpn, 0, <<>>)

\* ------------------------------------------------------------------------
\* evaluateExpression
\* ------------------------------------------------------------------------

\* A blank test that knows the empty string only.
IsEmptyOnly(s) == Len(s) = 0

\* !s || !s.trim(): the string is empty or all whitespace.
IsBlank(s) == \A p \in 1..Len(s) : isWhite(s[p])

\* tokenize, then toRPN, then evalRPN; the first error ends it.
Pipeline(s) ==
  LET tk == tokenize(s) IN
  IF tk.err # NoErr THEN [v |-> NoValue, err |-> tk.err]
  ELSE LET rp == toRPN(tk.tokens) IN
       IF rp.err # NoErr THEN [v |-> NoValue, err |-> rp.err]
       ELSE evalRPN(rp.out)

evaluateExpression(s) ==
  IF IsBlank(s) THEN [v |-> Zero, err |-> NoErr] ELSE Pipeline(s)

\* ------------------------------------------------------------------------
\* formatNumber
\* ------------------------------------------------------------------------

DigitChar(d) ==
  CASE d = 0 -> "0" [] d = 1 -> "1" [] d = 2 -> "2" [] d = 3 -> "3"
    [] d = 4 -> "4" [] d = 5 -> "5" [] d = 6 -> "6" [] d = 7 -> "7"
    [] d = 8 -> "8" [] d = 9 -> "9"

\* String(n) for a natural n.
RECURSIVE NatText(_)
NatText(n) == IF n < 10 THEN <<DigitChar(n)>> ELSE Append(NatText(n \div 10), DigitChar(n % 10))

\* The first k fractional digits of rem/d (rem < d) and the remainder left.
RECURSIVE FracDigits(_, _, _)
FracDigits(rem, d, k) ==
  IF k = 0 THEN [ds |-> <<>>, rem |-> rem]
  ELSE LET r == FracDigits((rem * 10) % d, d, k - 1)
       IN  [ds |-> <<(rem * 10) \div d>> \o r.ds, rem |-> r.rem]

\* The digit sequence plus one in its last place, and the carry out of it.
RECURSIVE Increment(_)
Increment(ds) ==
  IF ds = <<>> THEN [ds |-> <<>>, carry |-> 1]
  ELSE IF ds[Len(ds)] < 9
       THEN [ds |-> [ds EXCEPT ![Len(ds)] = @ + 1], carry |-> 0]
       ELSE LET r == Increment(SubSeq(ds, 1, Len(ds) - 1))
            IN  [ds |-> Append(r.ds, 0), carry |-> r.carry]

FractionDigits == 12

\* n.toFixed(12) for a finite n: the nearest decimal of 12 places, the
\* larger one on a tie.
ToFixed(v) ==
  LET an == Abs(v.n)
      f == FracDigits(an % v.d, v.d, FractionDigits)
      up == 2 * f.rem >= v.d
      r == IF up THEN Increment(f.ds) ELSE [ds |-> f.ds, carry |-> 0]
  IN  (IF v.n < 0 THEN <<"-">> ELSE <<>>)
        \o NatText(an \div v.d + r.carry) \o <<".">>
        \o [p \in 1..FractionDigits |-> DigitChar(r.ds[p])]

\* text.replace(/\.?0+$/, ''): the trailing zeros go, and a dot before them.
RECURSIVE StripZeros(_)
StripZeros(text) ==
  IF Len(text) > 0 /\ text[Len(text)] = "0"
  THEN StripZeros(SubSeq(text, 1, Len(text) - 1))
  ELSE text
TrimFraction(text) ==
  LET z == StripZeros(text) IN
  IF Len(z) < Len(text) /\ Len(z) > 0 /\ z[Len(z)] = "."
  THEN SubSeq(z, 1, Len(z) - 1)
  ELSE z

ErrorText == <<"E", "r", "r", "o", "r">>
\* The text of a number the arithmetic does not follow.
UnmText == <<"unm">>

\* formatNumber(n).  A difference below 1e-12 from the nearest integer means
\* an integer here, where denominators stay below 1e12.
formatNumber(v) ==
  IF v.k \in {"nan", "inf"} THEN ErrorText
  ELSE IF v.k = "unm" THEN UnmText
  ELSE IF v.d = 1 THEN (IF v.n < 0 THEN <<"-">> ELSE <<>>) \o NatText(Abs(v.n))
  ELSE TrimFraction(ToFixed(v))

\* ------------------------------------------------------------------------
\* Commands
\* ------------------------------------------------------------------------

HistoryMax == 100

\* animateValue(newVal): the text reaches the display when its timeout runs.
animateValue(pending, newVal) == Append(pending, newVal)

\* pushHistoryItem(expr, result).
pushHistoryItem(hist, expr, result) ==
  LET h == <<[expr |-> expr, result |-> result]>> \o hist
  IN  IF Len(h) > HistoryMax THEN SubSeq(h, 1, Len(h) - 1) ELSE h

\* text matches ^-?\d*\.?\d+$.
IsSignedNumber(text) ==
  LET body == IF Len(text) > 0 /\ text[1] = "-" THEN Tail(text) ELSE text IN
  /\ Len(body) > 0
  /\ \A p \in 1..Len(body) : body[p] \in Digits \cup {"."}
  /\ body[Len(body)] \in Digits
  /\ Cardinality({p \in 1..Len(body) : body[p] = "."}) <= 1

\* expression.match(/(.*?)(-?\d*\.?\d+)$/): the length of the shortest
\* prefix whose rest is a signed number, or -1 when there is no match.
RECURSIVE MatchFrom(_, _)
MatchFrom(text, k) ==
  IF k >= Len(text) THEN -1
  ELSE IF IsSignedNumber(SubSeq(text, k + 1, Len(text))) THEN k
  ELSE MatchFrom(text, k + 1)

AC == <<"A", "C">>
\* The sign key, U+00B1.
PlusMinus == <<"+/-">>
PercentKey == <<"%">>
Equals == <<"=">>

State(e, l, h, t) == [expression |-> e, lastResult |-> l, history |-> h, timers |-> t]

\* An '=' branch whose catch also clears the expression.
HandleEqualsClearing(e, l, h, t) ==
  LET r == evaluateExpression(e) IN
  IF r.err # NoErr THEN State(<<>>, l, h, animateValue(t, ErrorText))
  ELSE LET str == formatNumber(r.v)
       IN  State(str, r.v, pushHistoryItem(h, e, str), animateValue(t, str))

\* The '=' branch of handleCommand, with the outer catch.
HandleEquals(e, l, h, t) ==
  LET r == evaluateExpression(e) IN
  IF r.err # NoErr THEN State(e, l, h, animateValue(t, ErrorText))
  ELSE LET str == formatNumber(r.v)
       IN  State(str, r.v, pushHistoryItem(h, e, str), animateValue(t, str))

\* The generic branch: append, then evaluate and show, errors swallowed.
HandleAppend(cmd, e, l, h, t) ==
  LET r == evaluateExpression(e \o cmd) IN
  IF r.err # NoErr THEN State(e \o cmd, l, h, t)
  ELSE State(e \o cmd, l, h, animateValue(t, formatNumber(r.v)))

\* The sign branch.
HandleSign(e, l, h, t) ==
  IF e = <<>> THEN State(<<"-">>, l, h, animateValue(t, <<"0">>))
  ELSE LET k == MatchFrom(e, 0) IN
       IF k >= 0 THEN
         LET before == SubSeq(e, 1, k)
             last == SubSeq(e, k + 1, Len(e))
         IN  IF last[1] = "-" THEN State(before \o Tail(last), l, h, t)
             ELSE State(before \o <<"-">> \o last, l, h, t)
       ELSE State(<<"-">> \o e, l, h, t)

\* handleCommand(cmd) on the state (e, l, h, t).
handleCommand(cmd, e, l, h, t) ==
  IF cmd = AC THEN State(<<>>, l, h, animateValue(t, <<"0">>))
  ELSE IF cmd = PlusMinus THEN HandleSign(e, l, h, t)
  ELSE IF cmd = PercentKey THEN State(e \o <<"%">>, l, h, t)
  ELSE IF cmd = Equals THEN HandleEquals(e, l, h, t)
  ELSE HandleAppend(cmd, e, l, h, t)

\* ------------------------------------------------------------------------
\* State
\* ------------------------------------------------------------------------

VARIABLES
  s,          \* the argument of the running evaluateExpression call
  pc,         \* where that call is: "call", "tokenize", "toRPN", "evalRPN",
              \* "returned", "thrown"
  calls,      \* the functions the call has entered, in order
  i,          \* tokenize: index into s
  tokens,     \* tokenize: tokens so far (then toRPN's argument)
  ti,         \* toRPN: tokens consumed
  out,        \* toRPN: output sequence
  ops,        \* toRPN: operator stack
  rpn,        \* toRPN's return value (evalRPN's argument)
  ri,         \* evalRPN: tokens consumed
  st,         \* evalRPN: value stack
  res,        \* the value returned, NoValue until then
  err,        \* the error thrown, NoErr until then
  expression, \* let expression
  lastResult, \* let lastResult
  history,    \* let history
  valueText,  \* valueEl.textContent
  timers,     \* texts of the pending animateValue timeouts, oldest first
  cmd         \* the argument of handleCommand when it was the last handler
              \* to run, NoCmd otherwise

engineVars == <<s, pc, calls, i, tokens, ti, out, ops, rpn, ri, st, res, err>>
uiVars == <<expression, lastResult, history, valueText, timers, cmd>>
vars == <<s, pc, calls, i, tokens, ti, out, ops, rpn, ri, st, res, err,
          expression, lastResult, history, valueText, timers, cmd>>

\* Every string over alphabet of length at most n.
Strings(alphabet, n) == UNION {[1..k -> alphabet] : k \in 0..n}

\* Inputs of every specification: the expressions the specification names.
Examples ==
  { <<"2", "+", "3", "*", "4">>, <<"2", "^", "3", "^", "2">>,
    <<"8", "-", "3", "-", "2">>, <<"-", "5", "+", "2">>,
    <<"5", "0", "%">>, <<"5", "0", "%", "+", "1", "0">>,
    <<"5", "/", "0">>, <<"5", "/", "(", "1", "-", "1", ")">>,
    <<"5", "/", "0", "%">>,
    <<"s", "q", "r", "t", "(", "9", ")">>, <<"s", "q", "r", "t">>,
    <<"s", "q", "r", "t", "(", ")">>, <<"s", "i", "n", "(", "9", ")">>,
    <<"(", "2", "+", "3">>, <<"2", "+", "3", ")">>,
    <<"2", "*", "-", "3">>, <<"2", "^", "-", "1">>, <<"2", "-", "-", "3">>,
    <<"(", "2", "+", "2", ")", "%">>,
    <<"1", ".", "2", ".", "3">>, <<" ", " ">>, <<"2", " ", "#">> }

NoCmd == <<"none">>

\* The state before any call and before any command.
EngineIdle(input) ==
  /\ s = input
  /\ pc = "call"
  /\ calls = <<>>
  /\ i = 0
  /\ tokens = <<>>
  /\ ti = 0
  /\ out = <<>>
  /\ ops = <<>>
  /\ rpn = <<>>
  /\ ri = 0
  /\ st = <<>>
  /\ res = NoValue
  /\ err = NoErr

\* After the script's init: setExpr('') and animateValue('0').
UIInit ==
  /\ expression = <<>>
  /\ lastResult = NoValue
  /\ history = <<>>
  /\ valueText = <<>>
  /\ timers = << <<"0">> >>
  /\ cmd = NoCmd

\* ------------------------------------------------------------------------
\* A call of evaluateExpression(s), one loop iteration at a time
\* ------------------------------------------------------------------------

\* Entry: a blank string returns 0 at once; otherwise tokenize is called.
EvaluateExpression ==
  /\ pc = "call"
  /\ IF IsBlank(s)
     THEN /\ pc' = "returned"
          /\ res' = Zero
          /\ calls' = calls
     ELSE /\ pc' = "tokenize"
          /\ res' = res
          /\ calls' = Append(calls, "tokenize")
  /\ UNCHANGED <<s, i, tokens, ti, out, ops, rpn, ri, st, err>>
  /\ UNCHANGED uiVars

TokenizeLoop ==
  /\ pc = "tokenize"
  /\ i < Len(s)
  /\ LET r == TokenizeIter(s, i, tokens) IN
       /\ i' = r.i
       /\ tokens' = r.tokens
       /\ err' = r.err
       /\ pc' = IF r.err # NoErr THEN "thrown" ELSE pc
  /\ UNCHANGED <<s, calls, ti, out, ops, rpn, ri, st, res>>
  /\ UNCHANGED uiVars

\* tokenize returns; toRPN(tokens) is called.
TokenizeReturn ==
  /\ pc = "tokenize"
  /\ i >= Len(s)
  /\ pc' = "toRPN"
  /\ calls' = Append(calls, "toRPN")
  /\ UNCHANGED <<s, i, tokens, ti, out, ops, rpn, ri, st, res, err>>
  /\ UNCHANGED uiVars

ToRPNLoop ==
  /\ pc = "toRPN"
  /\ ti < Len(tokens)
  /\ LET r == ToRPNIter(tokens[ti + 1], out, ops) IN
       /\ out' = r.out
       /\ ops' = r.ops
       /\ err' = r.err
       /\ pc' = IF r.err # NoErr THEN "thrown" ELSE pc
       /\ ti' = IF r.err # NoErr THEN ti ELSE ti + 1
  /\ UNCHANGED <<s, calls, i, tokens, rpn, ri, st, res>>
  /\ UNCHANGED uiVars

\* The final loop; toRPN returns and evalRPN(rpn) is called, or it throws.
ToRPNReturn ==
  /\ pc = "toRPN"
  /\ ti >= Len(tokens)
  /\ LET r == ToRPNDrain(out, ops) IN
       /\ out' = r.out
       /\ ops' = r.ops
       /\ err' = r.err
       /\ IF r.err # NoErr
          THEN pc' = "thrown" /\ rpn' = rpn /\ calls' = calls
          ELSE pc' = "evalRPN" /\ rpn' = r.out /\ calls' = Append(calls, "evalRPN")
  /\ UNCHANGED <<s, i, tokens, ti, ri, st, res>>
  /\ UNCHANGED uiVars

EvalRPNLoop ==
  /\ pc = "evalRPN"
  /\ ri < Len(rpn)
  /\ LET r == EvalRPNIter(rpn[ri + 1], st) IN
       /\ st' = r.st
       /\ err' = r.err
       /\ pc' = IF r.err # NoErr THEN "thrown" ELSE pc
       /\ ri' = IF r.err # NoErr THEN ri ELSE ri + 1
  /\ UNCHANGED <<s, calls, i, tokens, ti, out, ops, rpn, res>>
  /\ UNCHANGED uiVars

\* After the loop: the single value is returned, or the call throws.
EvalRPNReturn ==
  /\ pc = "evalRPN"
  /\ ri >= Len(rpn)
  /\ LET r == EvalRPNResult(st) IN
       /\ res' = r.v
       /\ err' = r.err
       /\ pc' = IF r.err # NoErr THEN "thrown" ELSE "returned"
  /\ UNCHANGED <<s, calls, i, tokens, ti, out, ops, rpn, ri, st>>
  /\ UNCHANGED uiVars

EngineNext ==
  \/ EvaluateExpression
  \/ TokenizeLoop
  \/ TokenizeReturn
  \/ ToRPNLoop
  \/ ToRPNReturn
  \/ EvalRPNLoop
  \/ EvalRPNReturn

Alphabet == {"2", "+", "*", "(", ")", "%", "s", " ", "#"}
Init == UIInit /\ \E input \in Strings(Alphabet, MaxLen) \cup Examples : EngineIdle(input)
Spec == Init /\ [][EngineNext]_vars

\* Every lexeme kind next to every other.
TokenAlphabet == {"2", "+", "-", "*", "/", "^", "(", ")", "%", "s"}
TokenInit ==
  UIInit /\ \E input \in Strings(TokenAlphabet, MaxTokenLen) \cup Examples : EngineIdle(input)
TokenSpec == TokenInit /\ [][EngineNext]_vars

\* Numbers and the five binary operators.
ArithAlphabet == {"2", "3", "+", "-", "*", "/", "^"}
\* number (operator number)^k over the digits 2 and 3.
RECURSIVE Alternating(_)
Alternating(k) ==
  IF k = 0 THEN {<<d>> : d \in {"2", "3"}}
  ELSE {x \o <<o, d>> : x \in Alternating(k - 1),
                        o \in {"+", "-", "*", "/", "^"}, d \in {"2", "3"}}
ArithInputs ==
  UNION {Alternating(k) : k \in 0..MaxOps} \cup Strings(ArithAlphabet, MaxArithLen)
ArithInit == UIInit /\ \E input \in ArithInputs \cup Examples : EngineIdle(input)
ArithSpec == ArithInit /\ [][EngineNext]_vars

\* Divisions by literal and by computed zeros.
DivAlphabet == {"5", "0", "/", "-", "%"}
DivInit ==
  UIInit /\ \E input \in Strings(DivAlphabet, MaxDivLen) \cup Examples : EngineIdle(input)
DivSpec == DivInit /\ [][EngineNext]_vars

\* Percent after every binary operator.
PercentAlphabet == {"5", "0", "%", "+", "-", "*", "/", "^"}
PercentInit ==
  UIInit /\ \E input \in Strings(PercentAlphabet, MaxPercentLen) \cup Examples : EngineIdle(input)
PercentSpec == PercentInit /\ [][EngineNext]_vars

\* Function names: sqrt followed by a short text, and short unknown names.
FuncInputs ==
  {<<"s", "q", "r", "t">> \o x : x \in Strings({"(", ")", "9", "2", "-"}, MaxFuncLen)}
    \cup Strings({"s", "q", "(", ")", "9"}, MaxFuncLen)
FuncInit == UIInit /\ \E input \in FuncInputs \cup Examples : EngineIdle(input)
FuncSpec == FuncInit /\ [][EngineNext]_vars

\* ------------------------------------------------------------------------
\* The page: commands, timeouts, backspace, history
\* ------------------------------------------------------------------------

\* The keys that reach handleCommand's generic branch.
AppendKeys == {<<"0">>, <<"/">>, <<"(">>}
Commands == {AC, PlusMinus, PercentKey, Equals} \cup AppendKeys

\* A click on a button or an allowed key: handleCommand(c).
HandleCommand ==
  \E c \in Commands :
    /\ pc = "call"
    /\ (c \in AppendKeys \cup {PercentKey, PlusMinus}) => Len(expression) < MaxExpr
    /\ \E r \in {handleCommand(c, expression, lastResult, history, timers)} :
         /\ Len(r.history) <= MaxHist
         /\ Len(r.timers) <= MaxTimers
         /\ expression' = r.expression
         /\ lastResult' = r.lastResult
         /\ history' = r.history
         /\ timers' = r.timers
    /\ cmd' = c
    /\ UNCHANGED valueText
    /\ UNCHANGED engineVars

\* The oldest animateValue timeout runs: valueEl.textContent = newVal.
TimerFires ==
  /\ timers # <<>>
  /\ valueText' = Head(timers)
  /\ timers' = Tail(timers)
  /\ cmd' = NoCmd
  /\ UNCHANGED <<expression, lastResult, history>>
  /\ UNCHANGED engineVars

\* The Backspace key: setExpr(expression.slice(0, -1)).
Backspace ==
  /\ expression # <<>>
  /\ expression' = SubSeq(expression, 1, Len(expression) - 1)
  /\ cmd' = NoCmd
  /\ UNCHANGED <<lastResult, history, valueText, timers>>
  /\ UNCHANGED engineVars

\* The clear-history button.
ClearHistory ==
  /\ history # <<>>
  /\ history' = <<>>
  /\ cmd' = NoCmd
  /\ UNCHANGED <<expression, lastResult, valueText, timers>>
  /\ UNCHANGED engineVars

\* A click on a history entry: setExpr(item.expr); animateValue(item.result).
HistoryClick ==
  \E p \in 1..Len(history) :
    /\ Len(timers) < MaxTimers
    /\ expression' = history[p].expr
    /\ timers' = animateValue(timers, history[p].result)
    /\ cmd' = NoCmd
    /\ UNCHANGED <<lastResult, history, valueText>>
    /\ UNCHANGED engineVars

UINext ==
  \/ HandleCommand
  \/ TimerFires
  \/ Backspace
  \/ ClearHistory
  \/ HistoryClick

UISpecInit == UIInit /\ EngineIdle(<<>>)
UISpec == UISpecInit /\ [][UINext]_vars

\* ------------------------------------------------------------------------
\* Properties
\* ------------------------------------------------------------------------

Finished == pc \in {"returned", "thrown"}
Outcome == [v |-> res, err |-> err]
Entered(f) == \E p \in 1..Len(calls) : calls[p] = f
LastTok(seq) == seq[Len(seq)]

\* Token t is the token of the lexeme text.
SpelledBy(t, text) ==
  \/ t.type = "num" /\ t.value = text /\ \A p \in 1..Len(text) : text[p] \in Digits \cup {"."}
  \/ t.type = "op" /\ t.value = text /\ Len(text) = 1 /\ text[1] \in {"+", "-", "*", "/", "^"}
  \/ t.type = "func" /\ t.value = text /\ text[1] \in Letters
  \/ t.type = "percent" /\ text = <<"%">>
  \/ t.type = "(" /\ text = <<"(">>
  \/ t.type = ")" /\ text = <<")">>
\* The character at i is a sign with nothing, a '(' or an operator before it.
SignNeedsZero ==
  /\ s[i + 1] \in {"+", "-"}
  /\ \/ tokens = <<>>
     \/ LastTok(tokens).type \in {"(", "op"}
\* C8: a tokenize iteration on '+' or '-' with no token before it, or with a
\* '(' or an operator token before it, appends Number("0") and then the
\* operator; every other iteration skips whitespace, throws, or appends
\* exactly one token, the one spelled by the characters it consumed (so no
\* zero is made up before '*', '/', '^', nor before a sign that follows a
\* number, ')', '%' or a function name).
C8_SyntheticZero ==
  [][(pc = "tokenize" /\ i < Len(s)) =>
       IF SignNeedsZero
       THEN /\ tokens' = tokens \o <<Tok("num", <<"0">>), Tok("op", <<s[i + 1]>>)>>
            /\ i' = i + 1
            /\ pc' = "tokenize"
       ELSE \/ pc' = "thrown" /\ tokens' = tokens
            \/ tokens' = tokens /\ i' = i + 1 /\ isWhite(s[i + 1])
            \/ /\ i' > i
               /\ Len(tokens') = Len(tokens) + 1
               /\ SubSeq(tokens', 1, Len(tokens)) = tokens
               /\ SpelledBy(LastTok(tokens'), SubSeq(s, i + 1, i'))]_vars
\* A sign directly after an operator character got its zero, and a sign
\* directly after a number, ')' or '%' got none.
C8_Witness ==
  /\ pc = "toRPN"
  /\ \E p \in 2..Len(tokens) - 1 :
       /\ tokens[p] = Tok("num", <<"0">>)
       /\ tokens[p - 1].type = "op"
       /\ tokens[p + 1] = Tok("op", <<"-">>)
  /\ \A p \in 1..Len(s) : s[p] # "0"

\* evalRPN(toRPN(tokenize(str))), said without evaluateExpression.
WhitespaceOnly(str) == \A p \in 1..Len(str) : str[p] \in {" ", "\t", "\n", "\r"}
Composed(str) ==
  LET tk == tokenize(str)
      rp == toRPN(tk.tokens)
  IN  IF tk.err # NoErr THEN [v |-> NoValue, err |-> tk.err]
      ELSE IF rp.err # NoErr THEN [v |-> NoValue, err |-> rp.err]
      ELSE evalRPN(rp.out)
\* C10: a finished call on an empty or whitespace-only string returned 0
\* having entered none of tokenize, toRPN, evalRPN, although the pipeline on
\* that string throws "Invalid expression" (evalRPN of the empty sequence
\* leaves no value); a finished call on any other string has the outcome of
\* evalRPN(toRPN(tokenize(s))), the first error ending it.
C10_BlankIsZero ==
  Finished =>
    IF WhitespaceOnly(s)
    THEN /\ Outcome = [v |-> Zero, err |-> NoErr]
         /\ calls = <<>>
         /\ evalRPN(<<>>).err = Err("Invalid expression", <<>>)
         /\ Composed(s).err = Err("Invalid expression", <<>>)
    ELSE Outcome = Composed(s)
\* A call on spaces only has returned 0.
C10_Witness == pc = "returned" /\ Len(s) > 0 /\ WhitespaceOnly(s) /\ res = Zero

\* Every ')' closes an open '(' and none stays open.
RECURSIVE Depths(_, _, _)
Depths(toks, p, depth) ==
  IF p > Len(toks) THEN depth = 0
  ELSE IF toks[p].type = "(" THEN Depths(toks, p + 1, depth + 1)
  ELSE IF toks[p].type = ")" THEN depth > 0 /\ Depths(toks, p + 1, depth - 1)
  ELSE Depths(toks, p + 1, depth)
Balanced(toks) == Depths(toks, 1, 0)
ToRPNEnded == Entered("toRPN") /\ pc # "toRPN"
Mismatched == err = Err("Mismatched parentheses", <<>>)
\* C3: once toRPN has ended, it has thrown "Mismatched parentheses" exactly
\* when the parentheses of its tokens are unbalanced (a ')' with no '(' open,
\* or a '(' never closed); and when it has, evalRPN was never entered: no
\* RPN sequence was returned and the value stack was never touched.
C3_MismatchIffUnbalanced ==
  ToRPNEnded =>
    /\ Mismatched <=> ~Balanced(tokens)
    /\ Mismatched =>
         /\ pc = "thrown"
         /\ ~Entered("evalRPN")
         /\ rpn = <<>> /\ ri = 0 /\ st = <<>> /\ res = NoValue
\* toRPN threw on tokens holding both a '(' and a ')'.
C3_Witness ==
  /\ pc = "thrown" /\ Mismatched
  /\ \E p \in 1..Len(tokens) : tokens[p].type = "("
  /\ \E p \in 1..Len(tokens) : tokens[p].type = ")"

IsBinary(t) == t.type = "op" /\ t.value # <<"%">>
IsPercentOp(t) == t.type = "op" /\ t.value = <<"%">>
\* C6: evalRPN returns only from the check after the last token, and only
\* with exactly one value on the stack, which is the result; with any other
\* count (none, two or more) it throws.  A binary operator met with fewer
\* than two values, and a percent operator met with none, throw at that
\* token and leave the stack as it was.
C6_ExactlyOneValue ==
  [][pc = "evalRPN" =>
       IF ri >= Len(rpn)
       THEN IF Len(st) = 1
            THEN pc' = "returned" /\ res' = st[1] /\ err' = NoErr
            ELSE pc' = "thrown" /\ res' = NoValue
                 /\ err' = Err("Invalid expression", <<>>)
       ELSE /\ pc' # "returned"
            /\ res' = NoValue
            /\ (IsBinary(rpn[ri + 1]) /\ Len(st) < 2) =>
                 (pc' = "thrown" /\ st' = st /\ ri' = ri
                  /\ err' = Err("Invalid expression", <<>>))
            /\ (IsPercentOp(rpn[ri + 1]) /\ Len(st) = 0) =>
                 (pc' = "thrown" /\ st' = st /\ ri' = ri
                  /\ err' = Err("Invalid percent", <<>>))]_vars
\* The check after the last token threw with two values left.
C6_Witness ==
  /\ pc = "thrown" /\ Entered("evalRPN")
  /\ ri = Len(rpn) /\ Len(st) = 2
  /\ err = Err("Invalid expression", <<>>)

Sqrt9 == <<"s", "q", "r", "t", "(", "9", ")">>
\* C7: tokenize turns a run of ASCII letters, continued by letters and
\* digits, into one Function token and toRPN takes a Function token without
\* error, whatever the name.  In evalRPN a Function token met with an empty
\* stack throws "Func missing arg" without looking at the name; with a value
\* on the stack, any name but "sqrt" throws "Unknown function" with that
\* name, and "sqrt" replaces the top value by its square root.  sqrt(9) is 3.
C7_Functions ==
  [][/\ (pc = "tokenize" /\ i < Len(s) /\ s[i + 1] \in Letters) =>
          /\ pc' = "tokenize" /\ err' = NoErr
          /\ tokens' = Append(tokens, Tok("func", SubSeq(s, i + 1, i')))
          /\ \A p \in i + 1..i' : s[p] \in Letters \cup Digits
          /\ i' = Len(s) \/ s[i' + 1] \notin Letters \cup Digits
     /\ (pc = "toRPN" /\ ti < Len(tokens) /\ tokens[ti + 1].type = "func") =>
          pc' = "toRPN" /\ err' = NoErr
     /\ (pc = "evalRPN" /\ ri < Len(rpn) /\ rpn[ri + 1].type = "func") =>
          IF st = <<>>
          THEN pc' = "thrown" /\ err' = Err("Func missing arg", <<>>)
          ELSE IF rpn[ri + 1].value # <<"s", "q", "r", "t">>
          THEN pc' = "thrown" /\ err' = Err("Unknown function", rpn[ri + 1].value)
          ELSE /\ pc' = "evalRPN" /\ err' = NoErr
               /\ st' = Append(SubSeq(st, 1, Len(st) - 1), SqrtV(st[Len(st)]))
     /\ (s = Sqrt9 /\ pc' = "returned") => res' = IntV(3)]_vars
\* sqrt(9) has returned 3.
C7_Witness == s = Sqrt9 /\ pc = "returned" /\ res = IntV(3)

IsDivision(t) == t.type = "op" /\ t.value = <<"/">>
\* Once thrown, a call holds no value.
ThrownIsFinal == pc = "thrown" => res = NoValue /\ err # NoErr
DivisionStep ==
  [][(pc = "evalRPN" /\ ri < Len(rpn) /\ IsDivision(rpn[ri + 1]) /\ Len(st) >= 2) =>
       LET b == st[Len(st)]
           a == st[Len(st) - 1]
       IN  IF b.k = "fin" /\ b.n = 0
           THEN pc' = "thrown" /\ err' = Err("Divide by zero", <<>>)
                /\ res' = NoValue /\ Len(st') < Len(st)
           ELSE b.k # "unm" =>
                  /\ pc' = "evalRPN" /\ err' = NoErr
                  /\ st' = Append(SubSeq(st, 1, Len(st) - 2), DivV(a, b))
                  /\ (b.k = "fin" /\ a.k = "fin") =>
                       (LastTok(st').k = "unm" \/
                        LastTok(st').n * a.d * b.n = a.n * b.d * LastTok(st').d)]_vars
\* C4: when evalRPN applies '/' (two values are on the stack) and the top
\* value, the divisor, is zero, the call throws "Divide by zero" and no
\* result is ever returned; when the divisor is a number other than zero the
\* quotient is pushed and nothing is thrown.  (A divisor the arithmetic does
\* not follow, kind "unm", is left out.)
C4_DivideByZero == DivisionStep /\ []ThrownIsFinal
\* A division threw on a divisor that an operator had computed.
C4_Witness ==
  /\ pc = "thrown" /\ err = Err("Divide by zero", <<>>)
  /\ ri >= 1 /\ IsDivision(rpn[ri + 1]) /\ rpn[ri].type = "op"
  /\ res = NoValue

AllDigits(text) == Len(text) > 0 /\ \A p \in 1..Len(text) : text[p] \in Digits
\* s is a op b% at operator position p.
IsOpPercentAt(str, p) ==
  /\ 1 < p /\ p + 1 < Len(str)
  /\ str[p] \in {"+", "-", "*", "/", "^"}
  /\ str[Len(str)] = "%"
  /\ AllDigits(SubSeq(str, 1, p - 1))
  /\ AllDigits(SubSeq(str, p + 1, Len(str) - 1))
Hundredth(v) == DivV(v, IntV(100))
PercentValues ==
  /\ \A p \in 1..Len(s) :
       (Finished /\ IsOpPercentAt(s, p)) =>
         LET a == NumberV(SubSeq(s, 1, p - 1))
             b == Hundredth(NumberV(SubSeq(s, p + 1, Len(s) - 1)))
         IN  IF s[p] = "/" /\ b = Zero
             THEN Outcome = [v |-> NoValue, err |-> Err("Divide by zero", <<>>)]
             ELSE Outcome = [v |-> ApplyOp(<<s[p]>>, a, b), err |-> NoErr]
  /\ (Finished /\ s = <<"5", "0", "%">>) => Outcome = [v |-> Rat(1, 2), err |-> NoErr]
  /\ (Finished /\ s = <<"5", "0", "%", "+", "1", "0">>) =>
       Outcome = [v |-> Rat(21, 2), err |-> NoErr]
  /\ (Finished /\ s = <<"(", "2", "+", "2", ")", "%">>) =>
       Outcome = [v |-> Rat(1, 25), err |-> NoErr]
PercentSteps ==
  [][/\ (pc = "toRPN" /\ ti < Len(tokens) /\ tokens[ti + 1].type = "percent") =>
          /\ ops' = ops
          /\ out' = out \o <<Tok("percent", <<>>), Tok("op", <<"%">>)>>
          /\ pc' = "toRPN"
     /\ (pc = "evalRPN" /\ ri < Len(rpn) /\ IsPercentOp(rpn[ri + 1]) /\ st # <<>>) =>
          /\ st' = Append(SubSeq(st, 1, Len(st) - 1), Hundredth(st[Len(st)]))
          /\ pc' = "evalRPN"]_vars
\* C5: toRPN sends a Percent token straight to the output, followed by the
\* operator '%', and leaves the operator stack as it is; evalRPN's '%'
\* divides the top value by 100 and leaves the values under it alone.  So
\* "a op b%" is a op (b/100) for each binary operator, "50%" is 0.5,
\* "50%+10" is 10.5 and "(2+2)%" is 0.04.
C5_PercentBypass == PercentSteps /\ []PercentValues
\* "5*5%": the percent applied to the second 5 alone, and 5 * 0.05 came back.
C5_Witness ==
  /\ pc = "returned" /\ s = <<"5", "*", "5", "%">>
  /\ res = Rat(1, 4)

\* ------------------------------------------------------------------------
\* Reference arithmetic: a recursive-descent evaluator of the usual grammar
\*   expr   ::= term   { ("+" | "-") term }      left to right
\*   term   ::= factor { ("*" | "/") factor }    left to right
\*   factor ::= ("+" | "-") factor | power       a sign applies to its operand
\*   power  ::= atom [ "^" factor ]              right to left
\*   atom   ::= number | "(" expr ")"
\* over the characters of the string.  A result is [ok, v, p]: whether the
\* text parsed, its value (DivByZero once a division by zero happened) and
\* the position after it.
\* ------------------------------------------------------------------------

DivByZero == [k |-> "divzero", n |-> 0, d |-> 0]
RefFail == [ok |-> FALSE, v |-> NoValue, p |-> 0]
RefOk(v, p) == [ok |-> TRUE, v |-> v, p |-> p]

RefApply(c, a, b) ==
  IF a = DivByZero \/ b = DivByZero THEN DivByZero
  ELSE CASE c = "+" -> AddV(a, b)
         [] c = "-" -> SubV(a, b)
         [] c = "*" -> MulV(a, b)
         [] c = "/" -> IF b.k = "fin" /\ b.n = 0 THEN DivByZero ELSE DivV(a, b)
         [] c = "^" -> PowV(a, b)

RefNegate(c, a) == IF c = "-" /\ a # DivByZero THEN SubV(Zero, a) ELSE a

\* An unsigned number: digits with at most one dot, at least one digit.
IsUnsignedNumber(text) ==
  /\ \E p \in 1..Len(text) : text[p] \in Digits
  /\ Cardinality({p \in 1..Len(text) : text[p] = "."}) <= 1

RECURSIVE RefExpr(_, _), RefExprRest(_, _, _), RefTerm(_, _), RefTermRest(_, _, _),
          RefFactor(_, _), RefPower(_, _), RefAtom(_, _)

RefAtom(str, p) ==
  IF p > Len(str) THEN RefFail
  ELSE IF str[p] = "(" THEN
    LET e == RefExpr(str, p + 1) IN
    IF e.ok /\ e.p <= Len(str) /\ str[e.p] = ")" THEN RefOk(e.v, e.p + 1) ELSE RefFail
  ELSE IF str[p] \in Digits \cup {"."} THEN
    LET j == ScanWhile(str, p - 1, Digits \cup {"."})
        text == SubSeq(str, p, j)
    IN  IF IsUnsignedNumber(text) THEN RefOk(NumberV(text), j + 1) ELSE RefFail
  ELSE RefFail

RefPower(str, p) ==
  LET a == RefAtom(str, p) IN
  IF a.ok /\ a.p <= Len(str) /\ str[a.p] = "^" THEN
    LET f == RefFactor(str, a.p + 1) IN
    IF f.ok THEN RefOk(RefApply("^", a.v, f.v), f.p) ELSE RefFail
  ELSE a

RefFactor(str, p) ==
  IF p <= Len(str) /\ str[p] \in {"+", "-"} THEN
    LET f == RefFactor(str, p + 1) IN
    IF f.ok THEN RefOk(RefNegate(str[p], f.v), f.p) ELSE RefFail
  ELSE RefPower(str, p)

RefTermRest(str, acc, p) ==
  IF p <= Len(str) /\ str[p] \in {"*", "/"} THEN
    LET f == RefFactor(str, p + 1) IN
    IF f.ok THEN RefTermRest(str, RefApply(str[p], acc, f.v), f.p) ELSE RefFail
  ELSE RefOk(acc, p)

RefTerm(str, p) ==
  LET f == RefFactor(str, p) IN
  IF f.ok THEN RefTermRest(str, f.v, f.p) ELSE RefFail

RefExprRest(str, acc, p) ==
  IF p <= Len(str) /\ str[p] \in {"+", "-"} THEN
    LET f == RefTerm(str, p + 1) IN
    IF f.ok THEN RefExprRest(str, RefApply(str[p], acc, f.v), f.p) ELSE RefFail
  ELSE RefOk(acc, p)

RefExpr(str, p) ==
  LET f == RefTerm(str, p) IN
  IF f.ok THEN RefExprRest(str, f.v, f.p) ELSE RefFail

\* The whole string is one expression of the grammar.
WellFormed(str) == RefExpr(str, 1).ok /\ RefExpr(str, 1).p = Len(str) + 1
RefValue(str) == RefExpr(str, 1).v

\* The call's outcome is the reference value (a throw of "Divide by zero"
\* where the reference divides by zero).
MatchesReference ==
  IF RefValue(s) = DivByZero
  THEN Outcome = [v |-> NoValue, err |-> Err("Divide by zero", <<>>)]
  ELSE Outcome = [v |-> RefValue(s), err |-> NoErr]

\* C1: a finished call on a well-formed expression (unsigned numbers, the
\* five binary operators, parentheses, signs at the start, after '(' or
\* after an operator) has the reference value.
C1_MatchesReference == (Finished /\ WellFormed(s)) => MatchesReference
\* 2*-3 has returned -3, where the reference value is -6.
C1_Witness ==
  /\ pc = "returned"
  /\ s = <<"2", "*", "-", "3">>
  /\ res = IntV(-3)
  /\ RefValue(s) = IntV(-6)

\* No sign and no parenthesis: number (operator number)*.
IsPlain(str) ==
  /\ WellFormed(str)
  /\ \A p \in 1..Len(str) : str[p] \in Digits \cup {".", "+", "-", "*", "/", "^"}
  /\ str[1] \notin {"+", "-"}
  /\ \A p \in 2..Len(str) :
       str[p] \in {"+", "-"} => str[p - 1] \in Digits \cup {"."}

\* The level of an operator token, and the claim's popping condition.
Level(t) ==
  IF t.value \in {<<"+">>, <<"-">>} THEN 1
  ELSE IF t.value \in {<<"*">>, <<"/">>} THEN 2
  ELSE 3
Dominates(top, t) ==
  /\ top.type = "op"
  /\ IF t.value = <<"^">> THEN Level(top) > Level(t) ELSE Level(top) >= Level(t)
GroupingSteps ==
  [][(pc = "toRPN" /\ ti < Len(tokens) /\ tokens[ti + 1].type = "op") =>
       LET t == tokens[ti + 1]
           kept == Len(ops') - 1
           popped == Len(ops) - kept
       IN  /\ pc' = "toRPN"
           /\ 0 <= kept /\ kept <= Len(ops)
           /\ ops' = Append(SubSeq(ops, 1, kept), t)
           /\ out' = out \o [q \in 1..popped |-> ops[Len(ops) + 1 - q]]
           /\ \A q \in kept + 1..Len(ops) : Dominates(ops[q], t)
           /\ kept > 0 => ~Dominates(ops[kept], t)]_vars
GroupingValues ==
  /\ (Finished /\ IsPlain(s)) => MatchesReference
  /\ (Finished /\ s = <<"2", "^", "3", "^", "2">>) => res = IntV(512)
  /\ (Finished /\ s = <<"8", "-", "3", "-", "2">>) => res = IntV(3)
  /\ (Finished /\ s = <<"2", "+", "3", "*", "4">>) => res = IntV(14)
\* C2: an iteration of toRPN on an operator token moves to the output, top
\* first, exactly the operators on top of the stack that bind at least as
\* tightly as it (more tightly, when it is '^'), stopping at the first entry
\* that is no such operator, and then pushes it.  So a finished call on
\* number (operator number)* has the reference value: ^ above * / above + -,
\* ^ grouping from the right and the others from the left; 2^3^2 is 512,
\* 8-3-2 is 3 and 2+3*4 is 14.
C2_Grouping == GroupingSteps /\ []GroupingValues
\* 3-2^3^2 has returned -509: '^' before '-', and '^' from the right.
C2_Witness ==
  /\ pc = "returned"
  /\ s = <<"3", "-", "2", "^", "3", "^", "2">>
  /\ res = IntV(-509)

\* evaluateExpression(text) throws.
Throws(text) == evaluateExpression(text).err # NoErr
=============================================================================
